---- MODULE Spec2Model ----
(***************************************************************************)
(* Model of edxval/models.py: the VAL tables (Profile, Video, CourseVideo, *)
(* EncodedVideo, VideoImage), the validation factory mixin, the youtube    *)
(* lookup, the image attach and the Video post_save observer.              *)
(*                                                                         *)
(* A table is a sequence of rows; a row's primary key is its position.     *)
(* Strings that the code inspects character by character are sequences of  *)
(* one-character strings; opaque strings are TLA+ strings.                 *)
(***************************************************************************)
EXTENDS Integers, Sequences, FiniteSets, TLC

VARIABLES
    clock,          \* current time, in ticks
    profile,        \* Profile table
    video,          \* Video table
    course_video,   \* CourseVideo table
    encoded_video,  \* EncodedVideo table
    video_image,    \* VideoImage table
    log,            \* records emitted through logger.info
    pc,             \* position of each concurrent caller
    local,          \* locals of each concurrent caller
    attaches,       \* the first create_or_update call that got the record, and the latest
    ret             \* outcome of the last completed call

vars == <<clock, profile, video, course_video, encoded_video, video_image,
          log, pc, local, attaches, ret>>

\* ---------------------------------------------------------------- bounds
MaxCourseVideos == 2
MaxProfileNameLen == 2
MaxProfiles == 2
MaxEncodedVideos == 3
MaxVideos == 2
MaxWrites == 4
MaxAttaches == 2
StartTick == 18
MaxTicks == 3
TicksPerSecond == 2

\* ------------------------------------------------------------- constants
CourseIdMaxLength == 255
ProfileNameMaxLength == 50

None == 0

SeqsUpTo(S, n) == UNION {[1..k -> S] : k \in 0..n}

\* ------------------------------------------------------------ CourseVideo
\* the course ids tried: a blank one and a well-formed one
CourseIds == {<<>>, <<"x">>}

\* the Video rows CourseVideo rows refer to
FixedVideos ==
    << [edx_video_id |-> "vid-1", status |-> "upload"],
       [edx_video_id |-> "vid-2", status |-> "upload"] >>

\* a Video reference: None, the pk of a stored Video, or a pk with no row
VideoRefs == 0..(Len(FixedVideos) + 1)

\* the keyword arguments of the factory methods: the pair, is_hidden optional
CourseVideoKwargs ==
    [course_id : CourseIds, video : VideoRefs] \cup
    [course_id : CourseIds, video : VideoRefs, is_hidden : BOOLEAN]

\* cls(**kwargs): is_hidden takes its default when not given
CourseVideo(kw) ==
    [course_id |-> kw.course_id,
     video |-> kw.video,
     is_hidden |-> IF "is_hidden" \in DOMAIN kw THEN kw.is_hidden ELSE FALSE]

\* the declared field rules of CourseVideo, as Model.clean_fields applies them
CleanFields(obj, videos) ==
    (IF Len(obj.course_id) = 0 THEN {"blank"} ELSE {})
    \cup (IF Len(obj.course_id) > CourseIdMaxLength THEN {"max_length"} ELSE {})
    \cup (IF obj.video = None THEN {"null"} ELSE {})
    \cup (IF obj.video # None /\ obj.video \notin 1..Len(videos)
          THEN {"invalid"} ELSE {})

\* unique_together = ("course_id", "video")
UniqueTogetherNever(obj, table) == FALSE

UniqueTogetherViolated(obj, table) ==
    \E i \in 1..Len(table) :
        table[i].course_id = obj.course_id /\ table[i].video = obj.video

\* Model.full_clean: the field rules, then the uniqueness checks on the
\* fields that passed; the result is the set of error codes raised
FullClean(obj, table, videos) ==
    LET fieldErrors == CleanFields(obj, videos)
    IN  IF fieldErrors # {} THEN fieldErrors
        ELSE IF UniqueTogetherViolated(obj, table) THEN {"unique_together"}
        ELSE {}

InsertNoUniqueIndex(obj, table, videos) == obj.video \notin 1..Len(videos)

\* the storage layer's INSERT: NOT NULL, the foreign key and the unique index
InsertError(obj, table, videos) ==
    \/ obj.video \notin 1..Len(videos)
    \/ UniqueTogetherViolated(obj, table)

\* cls.objects.get(**kwargs): the pks of the rows matching every given field
Matching(kw, table) ==
    {i \in 1..Len(table) :
        /\ table[i].course_id = kw.course_id
        /\ table[i].video = kw.video
        /\ ("is_hidden" \in DOMAIN kw => table[i].is_hidden = kw.is_hidden)}

\* The result of a factory call on a table: the table afterwards, the error
\* raised ("none" when it returns), the codes of a validation error and the
\* values returned.
Outcome(table, error, codes, object, created) ==
    [table |-> table, error |-> error, codes |-> codes,
     object |-> object, created |-> created]

SaveThenValidate(kw, table, videos) ==
    LET ret_val == CourseVideo(kw)
        errors == FullClean(ret_val, table, videos)
    IN  IF InsertError(ret_val, table, videos)
        THEN Outcome(table, "IntegrityError", {}, None, FALSE)
        ELSE IF errors # {}
        THEN Outcome(Append(table, ret_val), "ValidationError", errors, None, FALSE)
        ELSE Outcome(Append(table, ret_val), "none", {}, None, FALSE)

create_with_validation(kw, table, videos) ==
    LET ret_val == CourseVideo(kw)
        errors == FullClean(ret_val, table, videos)
    IN  IF errors # {}
        THEN Outcome(table, "ValidationError", errors, None, FALSE)
        ELSE IF InsertError(ret_val, table, videos)
        THEN Outcome(table, "IntegrityError", {}, None, FALSE)
        \* the method has no return statement: the caller gets None
        ELSE Outcome(Append(table, ret_val), "none", {}, None, FALSE)

get_or_create_with_validation(kw, table, videos) ==
    LET found == Matching(kw, table)
    IN  IF Cardinality(found) = 1
        THEN Outcome(table, "none", {}, CHOOSE i \in found : TRUE, FALSE)
        ELSE IF Cardinality(found) > 1
        THEN Outcome(table, "MultipleObjectsReturned", {}, None, FALSE)
        ELSE LET made == create_with_validation(kw, table, videos)
             IN  Outcome(made.table, made.error, made.codes, made.object,
                         made.error = "none")

\* Model.save() of a new CourseVideo, without validation
save_course_video(kw, table, videos) ==
    LET obj == CourseVideo(kw)
    IN  IF InsertError(obj, table, videos)
        THEN Outcome(table, "IntegrityError", {}, None, FALSE)
        ELSE Outcome(Append(table, obj), "none", {}, Len(table) + 1, TRUE)

Called(op, kw, out) ==
    [op |-> op, kwargs |-> kw, before |-> course_video, error |-> out.error,
     codes |-> out.codes, object |-> out.object, created |-> out.created]

NoCall == [op |-> "none"]

Idle == <<clock, profile, encoded_video, video_image, log, pc, local, attaches>>

InitCourseVideo ==
    /\ clock = 0
    /\ profile = <<>>
    /\ video = FixedVideos
    /\ course_video = <<>>
    /\ encoded_video = <<>>
    /\ video_image = <<>>
    /\ log = <<>>
    /\ pc = <<>>
    /\ local = <<>>
    /\ attaches = <<>>
    /\ ret = NoCall

CreateWithValidation ==
    \E kw \in CourseVideoKwargs :
        LET out == create_with_validation(kw, course_video, video)
        IN  /\ Len(out.table) <= MaxCourseVideos
            /\ course_video' = out.table
            /\ ret' = Called("create_with_validation", kw, out)
            /\ UNCHANGED <<video, Idle>>

GetOrCreateWithValidation ==
    \E kw \in CourseVideoKwargs :
        LET out == get_or_create_with_validation(kw, course_video, video)
        IN  /\ Len(out.table) <= MaxCourseVideos
            /\ course_video' = out.table
            /\ ret' = Called("get_or_create_with_validation", kw, out)
            /\ UNCHANGED <<video, Idle>>

SaveCourseVideo ==
    \E kw \in [course_id : CourseIds, video : VideoRefs, is_hidden : BOOLEAN] :
        LET out == save_course_video(kw, course_video, video)
        IN  /\ Len(out.table) <= MaxCourseVideos
            /\ course_video' = out.table
            /\ ret' = Called("save", kw, out)
            /\ UNCHANGED <<video, Idle>>

NextCourseVideo ==
    \/ CreateWithValidation
    \/ GetOrCreateWithValidation
    \/ SaveCourseVideo

SpecCourseVideo == InitCourseVideo /\ [][NextCourseVideo]_vars

\* The lookup fields of the last call name a pair some row already held.
PairExisted ==
    \E i \in 1..Len(ret.before) :
        /\ ret.before[i].course_id = ret.kwargs.course_id
        /\ ret.before[i].video = ret.kwargs.video

\* C1: get_or_create_with_validation returns (the existing record, FALSE)
\* when a record matches the lookup fields, and otherwise (the newly
\* persisted record, TRUE).
C1_GetOrCreateReturnsRecord ==
    (ret.op = "get_or_create_with_validation" /\ ret.error = "none") =>
        IF Matching(ret.kwargs, ret.before) # {}
        THEN /\ ret.object \in Matching(ret.kwargs, ret.before)
             /\ ret.created = FALSE
             /\ course_video = ret.before
        ELSE /\ ret.created = TRUE
             /\ Len(course_video) = Len(ret.before) + 1
             /\ ret.object = Len(course_video)

\* C2: create_with_validation given field values that break a declared rule
\* fails with a validation error, not a storage error, and leaves the
\* CourseVideo table as it was.
C2_ValidateBeforeWrite ==
    (/\ ret.op = "create_with_validation"
     /\ \/ Len(ret.kwargs.course_id) = 0
        \/ Len(ret.kwargs.course_id) > CourseIdMaxLength
        \/ ret.kwargs.video \notin 1..Len(video)
        \/ PairExisted)
    => (ret.error = "ValidationError" /\ course_video = ret.before)

C2_Witness ==
    /\ ret.op = "create_with_validation"
    /\ Len(ret.kwargs.course_id) = 0
    /\ ret.error = "ValidationError"
    /\ Len(ret.before) > 0
    /\ course_video = ret.before

\* the last call tried to create a row: a save, or a validated create (direct,
\* or after a lookup that found nothing) of a candidate whose own fields are
\* well formed
TriedToCreate ==
    \/ ret.op = "save"
    \/ /\ \/ ret.op = "create_with_validation"
           \/ (ret.op = "get_or_create_with_validation"
                /\ Matching(ret.kwargs, ret.before) = {})
       /\ Len(ret.kwargs.course_id) > 0
       /\ ret.kwargs.video \in 1..Len(video)

Callers == {"A", "B"}

Other(c) == CHOOSE d \in Callers : d # c

InitialTables ==
    {<<>>, <<[course_id |-> <<"x">>, video |-> 1, is_hidden |-> FALSE]>>}

Fresh(kw) ==
    [kwargs |-> kw, missed |-> FALSE, seen |-> 0, error |-> "none",
     codes |-> {}, object |-> None, created |-> FALSE]

InitRace ==
    /\ clock = 0
    /\ profile = <<>>
    /\ video = FixedVideos
    /\ course_video \in InitialTables
    /\ encoded_video = <<>>
    /\ video_image = <<>>
    /\ log = <<>>
    /\ pc = [c \in Callers |-> "get"]
    /\ \E kw \in CourseVideoKwargs : local = [c \in Callers |-> Fresh(kw)]
    /\ attaches = <<>>
    /\ ret = [op |-> "race", before |-> course_video]

RaceIdle == <<clock, profile, video, encoded_video, video_image, log, attaches, ret>>

\* line 53: cls.objects.get(*args, **kwargs)
RaceGet(c) ==
    /\ pc[c] = "get"
    /\ LET found == Matching(local[c].kwargs, course_video)
       IN  IF Cardinality(found) = 1
           THEN /\ local' = [local EXCEPT ![c].object = CHOOSE i \in found : TRUE]
                /\ pc' = [pc EXCEPT ![c] = "done"]
           ELSE IF Cardinality(found) > 1
           THEN /\ local' = [local EXCEPT ![c].error = "MultipleObjectsReturned"]
                /\ pc' = [pc EXCEPT ![c] = "done"]
           ELSE /\ local' = [local EXCEPT ![c].missed = TRUE]
                /\ pc' = [pc EXCEPT ![c] = "full_clean"]
    /\ UNCHANGED <<course_video, RaceIdle>>

\* lines 41-42: ret_val = cls(...); ret_val.full_clean()
RaceFullClean(c) ==
    /\ pc[c] = "full_clean"
    /\ LET errors == FullClean(CourseVideo(local[c].kwargs), course_video, video)
       IN  IF errors # {}
           THEN /\ local' = [local EXCEPT ![c].error = "ValidationError",
                                          ![c].codes = errors,
                                          ![c].seen = Len(course_video)]
                /\ pc' = [pc EXCEPT ![c] = "done"]
           ELSE /\ local' = [local EXCEPT ![c].seen = Len(course_video)]
                /\ pc' = [pc EXCEPT ![c] = "save"]
    /\ UNCHANGED <<course_video, RaceIdle>>

\* line 43: ret_val.save(), and the return of line 55
RaceSave(c) ==
    /\ pc[c] = "save"
    /\ LET ret_val == CourseVideo(local[c].kwargs)
       IN  IF InsertError(ret_val, course_video, video)
           THEN /\ local' = [local EXCEPT ![c].error = "IntegrityError"]
                /\ UNCHANGED course_video
           ELSE /\ course_video' = Append(course_video, ret_val)
                /\ local' = [local EXCEPT ![c].created = TRUE]
    /\ pc' = [pc EXCEPT ![c] = "done"]
    /\ UNCHANGED RaceIdle

NextRace ==
    \/ \E c \in Callers : RaceGet(c)
    \/ \E c \in Callers : RaceFullClean(c)
    \/ \E c \in Callers : RaceSave(c)

SpecRace == InitRace /\ [][NextRace]_vars

\* both lookups found no record and both calls have ended
RaceOver ==
    /\ ret.op = "race"
    /\ \A c \in Callers : pc[c] = "done" /\ local[c].missed

\* c ended without a row of its own while the other caller persisted one
Lost(c) == local[Other(c)].created /\ ~local[c].created

\* C6 as stated: at most one row is persisted and the losing caller gets the
\* storage layer's uniqueness violation, in every interleaving.
C6_LoserGetsStorageError ==
    RaceOver =>
        /\ Len(course_video) <= Len(ret.before) + 1
        /\ \A c \in Callers : Lost(c) => local[c].error = "IntegrityError"

\* C6 amended: at most one row is persisted and the losing caller always gets
\* an error: the storage layer's uniqueness violation when its validation ran
\* before the winner's save, and the validation error that reports the
\* duplicate pair when its validation ran after it.
C6_LoserGetsError ==
    RaceOver =>
        /\ Len(course_video) <= Len(ret.before) + 1
        /\ \A c \in Callers : Lost(c) =>
              IF local[c].seen = Len(ret.before)
              THEN local[c].error = "IntegrityError" /\ local[c].codes = {}
              ELSE /\ local[c].error = "ValidationError"
                   /\ local[c].codes = {"unique_together"}

C6_Witness ==
    /\ RaceOver
    /\ \E c \in Callers : Lost(c) /\ local[c].error = "IntegrityError"

\* ---------------------------------------------------------------- Profile
LowerCase == {"a", "b", "c", "d", "e", "f", "g", "h", "i", "j", "k", "l", "m",
              "n", "o", "p", "q", "r", "s", "t", "u", "v", "w", "x", "y", "z"}

UpperCase == {"A", "B", "C", "D", "E", "F", "G", "H", "I", "J", "K", "L", "M",
              "N", "O", "P", "Q", "R", "S", "T", "U", "V", "W", "X", "Y", "Z"}

Digits == {"0", "1", "2", "3", "4", "5", "6", "7", "8", "9"}

\* the character class [a-zA-Z0-9\-_] of URL_REGEX
UrlClass == LowerCase \cup UpperCase \cup Digits \cup {"-", "_"}

\* URL_REGEX = r'^[a-zA-Z0-9\-_]*$' as re.search applies it: a run of class
\* characters from the start, then '$', which matches at the end of the
\* string and also just before a newline that ends the string
URL_REGEX(s) ==
    \E k \in 0..Len(s) :
        /\ \A i \in 1..k : s[i] \in UrlClass
        /\ \/ k = Len(s)
           \/ k = Len(s) - 1 /\ s[Len(s)] = "\n"

\* the names tried: class characters, a space and a newline
ProfileNameAlphabet == {"a", "7", "_", " ", "\n"}

ProfileNames == SeqsUpTo(ProfileNameAlphabet, MaxProfileNameLen)

\* the field rules of Profile.profile_name and its unique=True, as
\* full_clean applies them: blank, then the validators, then uniqueness
ProfileFullClean(name, table) ==
    LET fieldErrors ==
            IF Len(name) = 0 THEN {"blank"}
            ELSE (IF Len(name) > ProfileNameMaxLength THEN {"max_length"} ELSE {})
                 \cup (IF ~URL_REGEX(name) THEN {"invalid profile_name"} ELSE {})
    IN  IF fieldErrors # {} THEN fieldErrors
        ELSE IF \E i \in 1..Len(table) : table[i].profile_name = name
        THEN {"unique"}
        ELSE {}

\* creation of a Profile: validate the candidate, then write it
create_profile(name, table) ==
    LET errors == ProfileFullClean(name, table)
    IN  IF errors # {}
        THEN Outcome(table, "ValidationError", errors, None, FALSE)
        ELSE Outcome(Append(table, [profile_name |-> name]), "none", {},
                     Len(table) + 1, TRUE)

InitProfile ==
    /\ clock = 0
    /\ profile = <<>>
    /\ video = <<>>
    /\ course_video = <<>>
    /\ encoded_video = <<>>
    /\ video_image = <<>>
    /\ log = <<>>
    /\ pc = <<>>
    /\ local = <<>>
    /\ attaches = <<>>
    /\ ret = NoCall

CreateProfile ==
    \E name \in ProfileNames :
        LET out == create_profile(name, profile)
        IN  /\ Len(out.table) <= MaxProfiles
            /\ profile' = out.table
            /\ ret' = [op |-> "create_profile", name |-> name, before |-> profile,
                       error |-> out.error, codes |-> out.codes]
            /\ UNCHANGED <<clock, video, course_video, encoded_video,
                           video_image, log, pc, local, attaches>>

NextProfile == CreateProfile

SpecProfile == InitProfile /\ [][NextProfile]_vars

\* C4: a Profile name made of allowed characters only (and otherwise valid:
\* not blank, within max_length, not taken) is created; a name holding a
\* character outside the class fails with a validation error and no row is
\* persisted.
C4_NameCharacterClass ==
    ret.op = "create_profile" =>
        /\ (/\ \A i \in 1..Len(ret.name) : ret.name[i] \in UrlClass
            /\ Len(ret.name) \in 1..ProfileNameMaxLength
            /\ \A i \in 1..Len(ret.before) : ret.before[i].profile_name # ret.name)
           => (ret.error = "none" /\ profile = Append(ret.before, [profile_name |-> ret.name]))
        /\ (\E i \in 1..Len(ret.name) : ret.name[i] \notin UrlClass)
           => (ret.error = "ValidationError" /\ profile = ret.before)

\* ----------------------------------------------------------- by_youtube_id
YOUTUBE == <<"y", "o", "u", "t", "u", "b", "e">>

\* the Profile rows the lookup is tried against
FixedProfiles ==
    << [profile_name |-> YOUTUBE],
       [profile_name |-> YOUTUBE \o <<"_", "h", "d">>],
       [profile_name |-> <<"m", "o", "b", "i", "l", "e">>] >>

YoutubeIds == {"abc123", "OPxhYzWD4kE"}

\* the rows of the join Video x EncodedVideo x Profile that filter() keeps:
\* both conditions of the one filter() call bear on the same EncodedVideo
Joined(youtube_id, videos, encoded, profiles) ==
    {e \in 1..Len(encoded) :
        /\ encoded[e].video \in 1..Len(videos)
        /\ profiles[encoded[e].profile].profile_name = YOUTUBE
        /\ encoded[e].url = youtube_id}

\* the queryset returned, without the order of its rows: each Video pk with
\* the number of times the queryset yields it, one per joined row
by_youtube_id(youtube_id, videos, encoded, profiles) ==
    LET rows == Joined(youtube_id, videos, encoded, profiles)
        found == {encoded[e].video : e \in rows}
    IN  [v \in found |-> Cardinality({e \in rows : encoded[e].video = v})]

InitYoutube ==
    /\ clock = 0
    /\ profile = FixedProfiles
    /\ video = FixedVideos
    /\ course_video = <<>>
    /\ encoded_video = <<>>
    /\ video_image = <<>>
    /\ log = <<>>
    /\ pc = <<>>
    /\ local = <<>>
    /\ attaches = <<>>
    /\ ret = NoCall

YoutubeIdle == <<clock, profile, video, course_video, video_image, log, pc,
                 local, attaches>>

\* EncodedVideo(...).save(): no unique constraint on (video, profile)
SaveEncodedVideo ==
    \E p \in 1..Len(profile), v \in 1..Len(video), url \in YoutubeIds :
        /\ Len(encoded_video) < MaxEncodedVideos
        /\ encoded_video' = Append(encoded_video,
                                   [profile |-> p, video |-> v, url |-> url])
        /\ UNCHANGED <<ret, YoutubeIdle>>

ByYoutubeId ==
    \E youtube_id \in YoutubeIds :
        /\ ret' = [op |-> "by_youtube_id", youtube_id |-> youtube_id,
                   qset |-> by_youtube_id(youtube_id, video, encoded_video, profile)]
        /\ UNCHANGED <<encoded_video, YoutubeIdle>>

NextYoutube == SaveEncodedVideo \/ ByYoutubeId

SpecYoutube == InitYoutube /\ [][NextYoutube]_vars

\* C5: by_youtube_id(id) yields exactly the Videos that have an EncodedVideo
\* with profile "youtube" and url id, each such Video once, and nothing when
\* no Video matches.
C5_EachMatchingVideoOnce ==
    ret.op = "by_youtube_id" =>
        \A v \in 1..Len(video) :
            IF \E e \in 1..Len(encoded_video) :
                   /\ encoded_video[e].video = v
                   /\ encoded_video[e].url = ret.youtube_id
                   /\ profile[encoded_video[e].profile].profile_name = YOUTUBE
            THEN v \in DOMAIN ret.qset /\ ret.qset[v] = 1
            ELSE v \notin DOMAIN ret.qset

\* ------------------------------------------------- Video post_save observer
EdxVideoIds == {"vid-1", "vid-2"}

Statuses == {"upload", "file_complete"}

CallbackBranchesSwapped(created, instance) ==
    IF ~created
    THEN [msg |-> "VAL: Video created with id [%s] and status [%s]",
          args |-> <<instance.edx_video_id, instance.status>>]
    ELSE [msg |-> "VAL: Status changed to [%s] for video [%s]",
          args |-> <<instance.status, instance.edx_video_id>>]

\* the record the observer hands to logger.info
video_status_update_callback(created, instance) ==
    IF created
    THEN [msg |-> "VAL: Video created with id [%s] and status [%s]",
          args |-> <<instance.edx_video_id, instance.status>>]
    ELSE [msg |-> "VAL: Status changed to [%s] for video [%s]",
          args |-> <<instance.status, instance.edx_video_id>>]

InitVideo ==
    /\ clock = 0
    /\ profile = <<>>
    /\ video = <<>>
    /\ course_video = <<>>
    /\ encoded_video = <<>>
    /\ video_image = <<>>
    /\ log = <<>>
    /\ pc = <<>>
    /\ local = <<>>
    /\ attaches = <<>>
    /\ ret = [op |-> "none", writes |-> 0]

VideoIdle == <<clock, profile, course_video, encoded_video, video_image, pc,
               local, attaches>>

Saved(pk, instance, created, prior, error) ==
    [op |-> "video_save", pk |-> pk, instance |-> instance, created |-> created,
     prior |-> prior, error |-> error, logged |-> Len(log),
     writes |-> IF error = "none" THEN ret.writes + 1 ELSE ret.writes]

\* Video(...).save() of a new instance: the INSERT, then post_save
InsertVideo ==
    \E id \in EdxVideoIds, st \in Statuses :
        LET instance == [edx_video_id |-> id, status |-> st]
        IN  /\ ret.writes < MaxWrites
            /\ Len(video) < MaxVideos
            /\ IF \E i \in 1..Len(video) : video[i].edx_video_id = id
               THEN /\ ret' = Saved(None, instance, FALSE, "", "IntegrityError")
                    /\ UNCHANGED <<video, log>>
               ELSE /\ video' = Append(video, instance)
                    /\ log' = Append(log, video_status_update_callback(TRUE, instance))
                    /\ ret' = Saved(Len(video) + 1, instance, TRUE, "", "none")
            /\ UNCHANGED VideoIdle

\* video.status = st; video.save() of a stored instance: the UPDATE, then
\* post_save
UpdateVideo ==
    \E pk \in 1..Len(video), st \in Statuses :
        LET instance == [video[pk] EXCEPT !.status = st]
        IN  /\ ret.writes < MaxWrites
            /\ video' = [video EXCEPT ![pk] = instance]
            /\ log' = Append(log, video_status_update_callback(FALSE, instance))
            /\ ret' = Saved(pk, instance, FALSE, video[pk].status, "none")
            /\ UNCHANGED VideoIdle

NextVideo == InsertVideo \/ UpdateVideo

SpecVideo == InitVideo /\ [][NextVideo]_vars

\* C9: each completed write of a Video is followed by exactly one log record:
\* "created" with the id and status for an insertion, "status changed" with
\* the id and the status now stored for an update; a save that wrote nothing
\* logs nothing.
C9_OneLogPerWrite ==
    /\ Len(log) = ret.writes
    /\ ret.op = "video_save" =>
          IF ret.error # "none" THEN Len(log) = ret.logged
          ELSE /\ Len(log) = ret.logged + 1
               /\ video[ret.pk] = ret.instance
               /\ log[Len(log)] =
                     IF ret.created
                     THEN [msg |-> "VAL: Video created with id [%s] and status [%s]",
                           args |-> <<video[ret.pk].edx_video_id, video[ret.pk].status>>]
                     ELSE [msg |-> "VAL: Status changed to [%s] for video [%s]",
                           args |-> <<video[ret.pk].status, video[ret.pk].edx_video_id>>]

C9_Witness ==
    /\ ret.op = "video_save"
    /\ ret.error = "none"
    /\ ~ret.created
    /\ ret.prior # video[ret.pk].status
    /\ Len(log) >= 2
    /\ log[Len(log)].args[1] = video[ret.pk].status

\* ------------------------------------------------ VideoImage.create_or_update
\* os.path.splitext(file_name)[1]: the text from the last dot on, when that
\* dot follows the last separator and some character that is not a dot
RFind(p, ch) ==
    IF \E i \in 1..Len(p) : p[i] = ch
    THEN CHOOSE i \in 1..Len(p) : p[i] = ch /\ \A j \in (i + 1)..Len(p) : p[j] # ch
    ELSE 0

splitext_ext(p) ==
    LET sepIndex == RFind(p, "/")
        dotIndex == RFind(p, ".")
    IN  IF /\ dotIndex > sepIndex
           /\ \E k \in (sepIndex + 1)..(dotIndex - 1) : p[k] # "."
        THEN SubSeq(p, dotIndex, Len(p))
        ELSE <<>>

\* the file names tried: two with an extension, and two whose dots or
\* separators leave them without one
FileNames ==
    { <<"a", ".", "p", "n", "g">>,
      <<"c", ".", "t", "a", "r", ".", "g", "z">>,
      <<".", "r", "c">>,
      <<"d", ".", "x", "/", "f">> }

DigitChars == <<"0", "1", "2", "3", "4", "5", "6", "7", "8", "9">>

RECURSIVE Decimal(_)
Decimal(n) ==
    IF n < 10 THEN <<DigitChars[n + 1]>>
    ELSE Append(Decimal(n \div 10), DigitChars[(n % 10) + 1])

\* strftime("%s"): whole seconds since the epoch, in decimal
StrftimeTicks(t) == Decimal(t)

strftime_s(t) == Decimal(t \div TicksPerSecond)

\* the timestamp line 216 formats: the record's modified field as
\* get_or_create returned it
StampNow(row, now) == now

Stamp(row, now) == row.modified

\* line 216: '{timestamp}{ext}'.format(...)
file_name_for(row, now, ext) == strftime_s(Stamp(row, now)) \o ext

\* the one stored CourseVideo the images are attached to; pk 2 is a
\* CourseVideo instance with no row in the store
FixedCourseVideos == <<[course_id |-> <<"x">>, video |-> 1, is_hidden |-> FALSE]>>

CourseVideoRefs == 1..(Len(FixedCourseVideos) + 1)

Faults == {"none", "get_or_create", "image_save", "record_save"}

Elapsed == {0, 1}

InitImage ==
    /\ clock = StartTick
    /\ profile = <<>>
    /\ video = FixedVideos
    /\ course_video = FixedCourseVideos
    /\ encoded_video = <<>>
    /\ video_image = <<>>
    /\ log = <<>>
    /\ pc = <<>>
    /\ local = <<>>
    /\ attaches = <<>>
    /\ ret = NoCall

ImageIdle == <<profile, video, course_video, encoded_video, log, pc, local>>

Tick ==
    /\ clock < StartTick + MaxTicks
    /\ clock' = clock + 1
    /\ UNCHANGED <<video_image, attaches, ret, ImageIdle>>

\* cls.objects.get_or_create(course_video=cv) on the table: the pk of the row
\* and the table, a new row carrying the current time
RowOf(cv, table) ==
    IF \E i \in 1..Len(table) : table[i].course_video = cv
    THEN CHOOSE i \in 1..Len(table) : table[i].course_video = cv
    ELSE Len(table) + 1

AfterGetOrCreate(cv, table, now) ==
    IF \E i \in 1..Len(table) : table[i].course_video = cv
    THEN table
    ELSE Append(table, [course_video |-> cv, image |-> <<>>,
                        created |-> now, modified |-> now])

\* the name the image field holds after image.save(name, ...): the storage
\* collaborator stores the file under the name it is given
stored_name(name) == name

Attached(cv, fault, name, ext, created, error, closed, image, ended, nth) ==
    [op |-> "create_or_update", course_video |-> cv, fault |-> fault,
     file_name |-> name, ext |-> ext, created |-> created, error |-> error,
     closed |-> closed, image |-> image, ended |-> ended, nth |-> nth]

\* the number of calls that obtained the record so far
Attaches == IF attaches = <<>> THEN 0 ELSE attaches[Len(attaches)].nth

\* the history kept: the first call that obtained the record and the latest
Remember(done) ==
    IF attaches = <<>> THEN <<done>> ELSE <<attaches[1], done>>

\* lines 214-220, once get_or_create has returned: the call's record, the
\* table and the time when it ends; d1 and d2 are the ticks that pass before
\* the save inside image.save and before the record's save
Attach(cv, file_name, fault, d1, d2) ==
    LET created == ~\E i \in 1..Len(video_image) :
                       video_image[i].course_video = cv
        got == AfterGetOrCreate(cv, video_image, clock)
        pk == RowOf(cv, video_image)
        file_extension == splitext_ext(file_name)
        name == file_name_for(got[pk], clock, file_extension)
        \* line 217: the field takes the name and saves the record
        imaged == [got EXCEPT ![pk].image = stored_name(name),
                              ![pk].modified = clock + d1]
        \* line 218
        saved == [imaged EXCEPT ![pk].modified = clock + d1 + d2]
        after == IF fault = "image_save" THEN got
                 ELSE IF fault = "record_save" THEN imaged
                 ELSE saved
        done == Attached(cv, fault, name, file_extension, created,
                    IF fault = "image_save" THEN "StorageError"
                    ELSE IF fault = "record_save" THEN "DatabaseError"
                    ELSE "none",
                    TRUE, after[pk].image,
                    IF fault = "image_save" THEN clock
                    ELSE IF fault = "record_save" THEN clock + d1
                    ELSE clock + d1 + d2,
                    Attaches + 1)
    IN  /\ Attaches < MaxAttaches
        /\ ret' = done
        /\ ret'.ended <= StartTick + MaxTicks
        /\ video_image' = after
        /\ clock' = ret'.ended
        /\ attaches' = Remember(ret')

\* create_or_update(course_video, image_data, file_name), with the storage
\* faults the call may meet and the time that passes inside it
CreateOrUpdate ==
    \E cv \in CourseVideoRefs, fault \in Faults :
        /\ IF fault = "get_or_create" \/ cv \notin 1..Len(course_video)
           THEN \* line 213 raises: the with block is never entered
                /\ ret' = Attached(cv, fault, <<>>, <<>>, FALSE,
                                   IF fault = "get_or_create" THEN "DatabaseError"
                                   ELSE "IntegrityError",
                                   FALSE, <<>>, clock, 0)
                /\ UNCHANGED <<clock, video_image, attaches>>
           ELSE IF fault = "image_save"
           THEN \E file_name \in FileNames : Attach(cv, file_name, fault, 0, 0)
           ELSE IF fault = "record_save"
           THEN \E file_name \in FileNames, d1 \in Elapsed :
                    Attach(cv, file_name, fault, d1, 0)
           ELSE \E file_name \in FileNames, d1 \in Elapsed, d2 \in Elapsed :
                    Attach(cv, file_name, fault, d1, d2)
        /\ UNCHANGED ImageIdle

NextImage == Tick \/ CreateOrUpdate

SpecImage == InitImage /\ [][NextImage]_vars

\* C7: every call to create_or_update leaves the supplied stream closed,
\* whether it returns or one of its steps fails.
C7_StreamAlwaysClosed ==
    ret.op = "create_or_update" => ret.closed

Sec(t) == t \div TicksPerSecond

\* the timestamp part of the file name an attach was given
StampOf(a) == SubSeq(a.file_name, 1, Len(a.file_name) - Len(a.ext))

C10_StampIsPriorModified ==
    [][attaches' # attaches =>
        LET new == attaches'[Len(attaches')]
        IN  /\ new.created =>
                  /\ video_image = <<>>
                  /\ video_image'[1].created = clock
                  /\ new.file_name = Decimal(Sec(clock)) \o new.ext
            /\ ~new.created =>
                  new.file_name = Decimal(Sec(video_image[1].modified)) \o new.ext
            /\ (new.nth = 2
                /\ Sec(video_image[1].created) = Sec(video_image[1].modified))
               => StampOf(new) = StampOf(attaches[1])]_vars

C10_Witness ==
    /\ Len(attaches) = 2
    /\ attaches[2].nth = 2
    /\ attaches[1].error = "none"
    /\ StampOf(attaches[2]) = StampOf(attaches[1])
    /\ Sec(attaches[2].ended) > Sec(attaches[1].ended)
    /\ StampOf(attaches[2]) # Decimal(Sec(attaches[2].ended))

====
